---- MODULE Spec2Model ----
(***************************************************************************)
(* Model of the OpenPGP packet codecs of benburkert/openpgp:                *)
(*   - packet.PrivateKey  (parse, Decrypt, Serialize and the per-algorithm  *)
(*     secret-material parsers),                                            *)
(*   - packet.SignatureV3 (parse, Serialize),                               *)
(*   - algorithm.HashSlice.Intersect.                                       *)
(* Byte strings are sequences over 0..255.  An absent value (a Go nil       *)
(* slice, nil pointer or nil interface) is the empty tuple None and a       *)
(* present value v is the one-element tuple Some(v).                        *)
(***************************************************************************)
EXTENDS Integers, Sequences, FiniteSets, TLC

VARIABLES
    pk,        \* the PrivateKey packet (None before one is built)
    origin,    \* how the packet's blob was made, if by encryption: the passphrase
               \* it was encrypted under, whether the material in it is a valid
               \* key, and the creation time of the public key beside it
    failed,    \* the number of Decrypt calls on the packet that returned an error
    old,       \* the packet as it was when the last operation was called
               \* (for a read or a constructor, the packet it built)
    last,      \* the last operation on the packet: its name, argument, result
    wire,      \* the bytes written by the last PrivateKey.Serialize
    back,      \* the result of parsing wire again
    sigIn,     \* the bytes the SignatureV3 packet was parsed from
    sig,       \* the SignatureV3 packet
    sigLast,   \* the last operation on the signature and its result
    sigOut,    \* the bytes written by the last SignatureV3.Serialize
    hs,        \* the storage of the receiver of HashSlice.Intersect
    hb,        \* the argument b of Intersect
    ha,        \* the receiver as it was when Intersect was called
    hi,        \* the range index of the outer loop of Intersect
    hj,        \* the write index j of Intersect
    hpc        \* the position of Intersect: "idle", "loop" or "done"

vars == <<pk, origin, failed, old, last, wire, back,
          sigIn, sig, sigLast, sigOut, hs, hb, ha, hi, hj, hpc>>
pkVars   == <<pk, origin, failed, old, last, wire, back>>
sigVars  == <<sigIn, sig, sigLast, sigOut>>
hashVars == <<hs, hb, ha, hi, hj, hpc>>

None == <<>>
Some(v) == <<v>>

-----------------------------------------------------------------------------
(* Bytes and big integers *)

Byte(n) == n % 256

RECURSIVE Xor(_, _)
Xor(a, b) ==
    IF a = 0 THEN b
    ELSE IF b = 0 THEN a
    ELSE ((a + b) % 2) + 2 * Xor(a \div 2, b \div 2)

RECURSIVE SumBytes(_)
SumBytes(d) == IF d = <<>> THEN 0 ELSE d[1] + SumBytes(Tail(d))

RECURSIVE BitLen(_)
BitLen(n) == IF n = 0 THEN 0 ELSE 1 + BitLen(n \div 2)

\* big.Int.Bytes: the big-endian bytes of n, without leading zeros.
RECURSIVE BigBytes(_)
BigBytes(n) == IF n = 0 THEN <<>> ELSE Append(BigBytes(n \div 256), n % 256)

\* big.Int.SetBytes: the big-endian value of a byte string.
RECURSIVE SetBytes(_)
SetBytes(bs) ==
    IF bs = <<>> THEN 0
    ELSE SetBytes(SubSeq(bs, 1, Len(bs) - 1)) * 256 + bs[Len(bs)]

\* encoding.MPI, SetBig(n).WriteTo: a two-byte bit length, then the bytes.
MPIWrite(n) ==
    <<BitLen(n) \div 256, BitLen(n) % 256>> \o BigBytes(n)

\* encoding.MPI.ReadFrom on the front of buf: the bytes read and the rest of
\* the buffer, or a read error when the buffer ends too early.
MPIRead(buf) ==
    IF Len(buf) < 2 THEN [ok |-> FALSE, bits |-> 0, bytes |-> <<>>, rest |-> <<>>]
    ELSE LET bits == buf[1] * 256 + buf[2]
             n == (bits + 7) \div 8
         IN IF Len(buf) < 2 + n
            THEN [ok |-> FALSE, bits |-> bits, bytes |-> <<>>, rest |-> <<>>]
            ELSE [ok |-> TRUE,
                  bits |-> bits,
                  bytes |-> SubSeq(buf, 3, 2 + n),
                  rest |-> SubSeq(buf, 3 + n, Len(buf))]

-----------------------------------------------------------------------------
(* Errors *)

NoError == "nil"
ErrTruncated == "StructuralError: truncated private key data"
ErrChecksum == "StructuralError: private key checksum failure"
ErrMPIRead == "unexpected EOF"
ErrUnknownCipher == "UnsupportedError: unknown cipher"
ErrUnsupportedCipher == "UnsupportedError: unsupported cipher in private key"
ErrDeprecatedS2K == "UnsupportedError: deprecated s2k function in private key"
ErrUnknownKeyType == "InvalidArgumentError: unknown private key type"
ErrInvalidPrime == "crypto/rsa: invalid prime value"
ErrInvalidModulus == "crypto/rsa: invalid modulus"
ErrInvalidExponents == "crypto/rsa: invalid exponents"
ErrPublicExponent == "crypto/rsa: public exponent too small"
PanicImpossible == "panic: impossible"
PanicDivideByZero == "panic: division by zero"
PanicNilDereference == "panic: nil pointer dereference"
PanicUnreachable == "panic: unreachable"
ErrEOF == "EOF"

-----------------------------------------------------------------------------
(* Checksums *)

\* mod64kHash: the sum of the bytes in a uint16.
mod64kHash(d) == SumBytes(d) % 65536

Sha1Size == 20

\* sha1.New, Write, Sum: a digest of Sha1Size bytes.  The digest function is
\* a stand-in that mixes every byte of the data and its length.
RECURSIVE Sha1Mix(_, _, _)
Sha1Mix(d, i, j) ==
    IF j > Len(d) THEN 0 ELSE (i + j) * d[j] + Sha1Mix(d, i, j + 1)

Sha1Sum(d) == [i \in 1..Sha1Size |-> Byte(Len(d) + i + Sha1Mix(d, i, 1))]

-----------------------------------------------------------------------------
(* Ciphers and the string-to-key function *)

\* algorithm.CipherById: the registered ciphers, each with its block size and
\* key size in bytes.  Cipher 1 is registered but has block size 0.
CipherById ==
    (1 :> [Id |-> 1, BlockSize |-> 0, KeySize |-> 0]) @@
    (7 :> [Id |-> 7, BlockSize |-> 2, KeySize |-> 2])

\* The function returned by s2k.Parse for a specifier holding salt: it fills
\* a key of n bytes from the passphrase.
S2K(salt, passphrase, n) ==
    [i \in 1..n |-> Byte(salt * i + passphrase ^ i)]

\* cipher.New(key) applied to one block: a permutation of the blocks for
\* every key.
BlockEncrypt(key, block) ==
    [o \in 1..Len(block) |-> Byte(block[o] + key[((o - 1) % Len(key)) + 1])]

\* The feedback register for byte n of a CFB stream: the IV for the first
\* block and the previous block of ciphertext afterwards.
CFBRegister(iv, c, n) ==
    LET B == Len(iv)
        b == (n - 1) \div B
    IN IF b = 0 THEN iv ELSE SubSeq(c, (b - 1) * B + 1, b * B)

\* cipher.NewCFBDecrypter(block, iv).XORKeyStream(data, c)
CFBDecrypt(key, iv, c) ==
    [n \in 1..Len(c) |->
        Xor(c[n], BlockEncrypt(key, CFBRegister(iv, c, n))[((n - 1) % Len(iv)) + 1])]

\* The encryption an exporter of the key ran (the inverse of CFBDecrypt).
RECURSIVE CFBEncryptFrom(_, _, _, _)
CFBEncryptFrom(key, iv, p, c) ==
    IF Len(c) = Len(p) THEN c
    ELSE LET n == Len(c) + 1
             k == BlockEncrypt(key, CFBRegister(iv, c, n))[((n - 1) % Len(iv)) + 1]
         IN CFBEncryptFrom(key, iv, p, Append(c, Xor(p[n], k)))

CFBEncrypt(key, iv, p) == CFBEncryptFrom(key, iv, p, <<>>)

-----------------------------------------------------------------------------
(* crypto/rsa: Validate and Precompute *)

\* rsa.PrivateKey.Validate: nil, or the error it returns.
Validate(priv) ==
    IF priv.E < 2 THEN ErrPublicExponent
    ELSE IF \E i \in 1..Len(priv.Primes) : priv.Primes[i] <= 1 THEN ErrInvalidPrime
    ELSE IF priv.Primes[1] * priv.Primes[2] # priv.N THEN ErrInvalidModulus
    ELSE IF \E i \in 1..Len(priv.Primes) :
                (priv.E * priv.D) % (priv.Primes[i] - 1) # 1
         THEN ErrInvalidExponents
    ELSE NoError

\* big.Int.Mod(x, m) for x >= 0: m = 0 is a division by zero, which
\* PrecomputePanics decides before BigMod is used.
BigMod(x, m) == IF m > 0 THEN x % m ELSE IF m < 0 THEN x % (0 - m) ELSE 0

\* big.Int.ModInverse(q, p)
ModInverse(q, p) ==
    IF \E x \in 1..(p - 1) : (q * x) % p = 1
    THEN CHOOSE x \in 1..(p - 1) : (q * x) % p = 1
    ELSE 0

\* rsa.PrivateKey.Precompute divides by each prime minus one.
PrecomputePanics(priv) == priv.Primes[1] = 1 \/ priv.Primes[2] = 1

Precompute(priv) ==
    [type |-> "rsa", N |-> priv.N, E |-> priv.E, D |-> priv.D,
     Primes |-> priv.Primes,
     Dp |-> BigMod(priv.D, priv.Primes[1] - 1),
     Dq |-> BigMod(priv.D, priv.Primes[2] - 1),
     Qinv |-> ModInverse(priv.Primes[2], priv.Primes[1])]

-----------------------------------------------------------------------------
(* packet.PrivateKey *)

RSAFamily == {"RSA", "RSASignOnly", "RSAEncryptOnly"}

\* new(PrivateKey): the zero value.
ZeroPrivateKey ==
    [PublicKey |-> None, Encrypted |-> FALSE, encryptedData |-> None,
     cipher |-> None, s2k |-> None, PrivateKey |-> None,
     sha1Checksum |-> FALSE, iv |-> None]

Result(p, e) == [pk |-> p, err |-> e]

\* The three assignments that end every parse*PrivateKey.
Installed(p, priv) ==
    [p EXCEPT !.PrivateKey = Some(priv), !.Encrypted = FALSE,
              !.encryptedData = None]

\* A variant of parseRSAPrivateKey that precomputes before it validates.
parseRSAPrivateKeyPrecomputeFirst(p, data) ==
    LET pub == p.PublicKey[1]
        d == MPIRead(data)
        pp == MPIRead(d.rest)
        q == MPIRead(pp.rest)
        rsaPriv == [N |-> pub.N, E |-> pub.E, D |-> SetBytes(d.bytes),
                    Primes |-> <<SetBytes(pp.bytes), SetBytes(q.bytes)>>]
    IN IF ~d.ok \/ ~pp.ok \/ ~q.ok THEN Result(p, ErrMPIRead)
       ELSE IF PrecomputePanics(rsaPriv) THEN Result(p, PanicDivideByZero)
       ELSE IF Validate(rsaPriv) # NoError THEN Result(p, Validate(rsaPriv))
       ELSE Result(Installed(p, Precompute(rsaPriv)), NoError)

\* A variant of parseRSAPrivateKey that installs the key before it validates.
parseRSAPrivateKeyInstallFirst(p, data) ==
    LET pub == p.PublicKey[1]
        d == MPIRead(data)
        pp == MPIRead(d.rest)
        q == MPIRead(pp.rest)
        rsaPriv == [N |-> pub.N, E |-> pub.E, D |-> SetBytes(d.bytes),
                    Primes |-> <<SetBytes(pp.bytes), SetBytes(q.bytes)>>]
    IN IF ~d.ok \/ ~pp.ok \/ ~q.ok THEN Result(p, ErrMPIRead)
       ELSE IF Validate(rsaPriv) # NoError
            THEN Result([p EXCEPT !.PrivateKey = Some(rsaPriv)], Validate(rsaPriv))
       ELSE Result(Installed(p, Precompute(rsaPriv)), NoError)

parseRSAPrivateKey(p, data) ==
    LET pub == p.PublicKey[1]
        d == MPIRead(data)
        pp == MPIRead(d.rest)
        q == MPIRead(pp.rest)
        rsaPriv == [N |-> pub.N, E |-> pub.E, D |-> SetBytes(d.bytes),
                    Primes |-> <<SetBytes(pp.bytes), SetBytes(q.bytes)>>]
    IN IF ~d.ok \/ ~pp.ok \/ ~q.ok THEN Result(p, ErrMPIRead)
       ELSE IF Validate(rsaPriv) # NoError THEN Result(p, Validate(rsaPriv))
       ELSE IF PrecomputePanics(rsaPriv) THEN Result(p, PanicDivideByZero)
       ELSE Result(Installed(p, Precompute(rsaPriv)), NoError)

\* A variant of parseDSAPrivateKey that leaves the encrypted blob in place.
parseDSAPrivateKeyKeepsBlob(p, data) ==
    LET x == MPIRead(data)
    IN IF ~x.ok THEN Result(p, ErrMPIRead)
       ELSE Result([p EXCEPT !.PrivateKey = Some([type |-> "dsa", X |-> SetBytes(x.bytes)]),
                             !.Encrypted = FALSE],
                   NoError)

parseDSAPrivateKey(p, data) ==
    LET x == MPIRead(data)
    IN IF ~x.ok THEN Result(p, ErrMPIRead)
       ELSE Result(Installed(p, [type |-> "dsa", X |-> SetBytes(x.bytes)]), NoError)

parseElGamalPrivateKey(p, data) ==
    LET x == MPIRead(data)
    IN IF ~x.ok THEN Result(p, ErrMPIRead)
       ELSE Result(Installed(p, [type |-> "elgamal", X |-> SetBytes(x.bytes)]), NoError)

parseECDSAPrivateKey(p, data) ==
    LET d == MPIRead(data)
    IN IF ~d.ok THEN Result(p, ErrMPIRead)
       ELSE Result(Installed(p, [type |-> "ecdsa", D |-> SetBytes(d.bytes)]), NoError)

parsePrivateKey(p, data) ==
    LET algo == p.PublicKey[1].PubKeyAlgo
    IN IF algo \in RSAFamily THEN parseRSAPrivateKey(p, data)
       ELSE IF algo = "DSA" THEN parseDSAPrivateKey(p, data)
       ELSE IF algo = "ElGamal" THEN parseElGamalPrivateKey(p, data)
       ELSE IF algo = "ECDSA" THEN parseECDSAPrivateKey(p, data)
       ELSE Result(p, PanicImpossible)

\* PrivateKey.parse on a zero packet.  The input is the public-key portion
\* as the public-key parser decodes it (None when that parser fails) and the
\* bytes that follow it.
parse(p0, input) ==
    LET r == input.body
        s2kType == r[1]
        p1 == [p0 EXCEPT !.PublicKey = input.pub]
    IN IF input.pub = None THEN Result(p0, ErrEOF)
       ELSE IF Len(r) < 1 THEN Result(p1, ErrEOF)
       ELSE IF s2kType = 0
            THEN LET p2 == [p1 EXCEPT !.s2k = None, !.Encrypted = FALSE,
                                      !.encryptedData = Some(Tail(r))]
                 IN parsePrivateKey(p2, Tail(r))
       ELSE IF s2kType \in {254, 255}
            THEN IF Len(r) < 2 THEN Result(p1, ErrEOF)
                 ELSE IF r[2] \notin DOMAIN CipherById
                      THEN Result(p1, ErrUnknownCipher)
                 ELSE LET p2 == [p1 EXCEPT !.cipher = Some(r[2]),
                                           !.Encrypted = TRUE]
                          blockSize == CipherById[r[2]].BlockSize
                      IN IF Len(r) < 3 THEN Result(p2, ErrEOF)
                         ELSE LET p3 == [p2 EXCEPT !.s2k = Some(r[3]),
                                            !.sha1Checksum = (s2kType = 254)]
                              IN IF blockSize = 0
                                 THEN Result(p3, ErrUnsupportedCipher)
                                 ELSE IF Len(r) < 3 + blockSize
                                 THEN Result([p3 EXCEPT !.iv = Some(SubSeq(r, 4, Len(r)))],
                                             ErrEOF)
                                 ELSE Result(
                                     [p3 EXCEPT
                                        !.iv = Some(SubSeq(r, 4, 3 + blockSize)),
                                        !.encryptedData =
                                            Some(SubSeq(r, 4 + blockSize, Len(r)))],
                                     NoError)
       ELSE Result(p1, ErrDeprecatedS2K)

\* The start of Decrypt on an encrypted packet: the key from the passphrase
\* and the blob run through the CFB decrypter.
Plaintext(p, passphrase) ==
    CFBDecrypt(S2K(p.s2k[1], passphrase, CipherById[p.cipher[1]].KeySize),
               p.iv[1], p.encryptedData[1])

TrailerSize(sha1Checksum) == IF sha1Checksum THEN Sha1Size ELSE 2

\* A variant of ChecksumError whose additive check compares the low byte only.
ChecksumErrorLowByteOnly(sha1Checksum, data) ==
    LET n == Len(data)
    IN IF sha1Checksum
       THEN IF n < Sha1Size THEN ErrTruncated
            ELSE IF Sha1Sum(SubSeq(data, 1, n - Sha1Size))
                      # SubSeq(data, n - Sha1Size + 1, n)
                 THEN ErrChecksum
            ELSE NoError
       ELSE IF n < 2 THEN ErrTruncated
            ELSE IF data[n] # mod64kHash(SubSeq(data, 1, n - 2)) % 256
                 THEN ErrChecksum
            ELSE NoError

\* The integrity check of Decrypt on the decrypted data: nil, or the error
\* Decrypt returns.
ChecksumError(sha1Checksum, data) ==
    LET n == Len(data)
    IN IF sha1Checksum
       THEN IF n < Sha1Size THEN ErrTruncated
            ELSE IF Sha1Sum(SubSeq(data, 1, n - Sha1Size))
                      # SubSeq(data, n - Sha1Size + 1, n)
                 THEN ErrChecksum
            ELSE NoError
       ELSE IF n < 2 THEN ErrTruncated
            ELSE LET sum == mod64kHash(SubSeq(data, 1, n - 2))
                 IN IF data[n - 1] # (sum \div 256) % 256 \/ data[n] # sum % 256
                    THEN ErrChecksum
                    ELSE NoError

\* A variant of Decrypt that answers an already decrypted packet by marking
\* it encrypted again.
DecryptReencrypts(p, passphrase) ==
    IF ~p.Encrypted THEN Result([p EXCEPT !.Encrypted = TRUE], NoError)
    ELSE Result(p, ErrChecksum)

\* A variant of Decrypt that decrypts the blob in place.
DecryptInPlace(p, passphrase) ==
    IF ~p.Encrypted THEN Result(p, NoError)
    ELSE LET data == Plaintext(p, passphrase)
             e == ChecksumError(p.sha1Checksum, data)
             q == [p EXCEPT !.encryptedData = Some(data)]
         IN IF e # NoError THEN Result(q, e)
            ELSE parsePrivateKey(
                     q, SubSeq(data, 1, Len(data) - TrailerSize(p.sha1Checksum)))

\* PrivateKey.Decrypt(passphrase)
Decrypt(p, passphrase) ==
    IF ~p.Encrypted THEN Result(p, NoError)
    ELSE LET data == Plaintext(p, passphrase)
             e == ChecksumError(p.sha1Checksum, data)
         IN IF e # NoError THEN Result(p, e)
            ELSE parsePrivateKey(
                     p, SubSeq(data, 1, Len(data) - TrailerSize(p.sha1Checksum)))

serializeRSAPrivateKey(priv) ==
    MPIWrite(priv.D) \o MPIWrite(priv.Primes[2]) \o MPIWrite(priv.Primes[1])
        \o MPIWrite(priv.Qinv)

serializeDSAPrivateKey(priv) == MPIWrite(priv.X)

serializeElGamalPrivateKey(priv) == MPIWrite(priv.X)

serializeECDSAPrivateKey(priv) == MPIWrite(priv.D)

\* PrivateKey.Serialize: the packet written (its public-key portion and the
\* bytes after it), or the error.
Serialize(p) ==
    IF p.PrivateKey = None THEN [out |-> None, err |-> ErrUnknownKeyType]
    ELSE LET priv == p.PrivateKey[1]
             privateKeyBytes ==
                 IF priv.type = "rsa" THEN serializeRSAPrivateKey(priv)
                 ELSE IF priv.type = "dsa" THEN serializeDSAPrivateKey(priv)
                 ELSE IF priv.type = "elgamal" THEN serializeElGamalPrivateKey(priv)
                 ELSE serializeECDSAPrivateKey(priv)
             checksum == mod64kHash(privateKeyBytes)
         IN [out |-> Some([pub |-> p.PublicKey,
                           body |-> <<0>> \o privateKeyBytes
                                    \o <<checksum \div 256, checksum % 256>>]),
             err |-> NoError]

\* NewRSAPrivateKey, NewDSAPrivateKey, NewElGamalPrivateKey,
\* NewECDSAPrivateKey: a packet around a key the caller holds.
NewPrivateKey(pub, priv) ==
    [ZeroPrivateKey EXCEPT !.PublicKey = Some(pub), !.PrivateKey = Some(priv)]

-----------------------------------------------------------------------------
(* algorithm: the hash registry and HashSlice.Intersect *)

\* HashById: the ids of the registered hash functions, all of type CryptoHash.
HashById == {1, 2, 3, 8, 9, 10, 11}

\* The inner loop of Intersect: whether some entry of b has the id of v.
\* A variant that looks at the first entry of b only.
IdInFirstOnly(v, b) == b # <<>> /\ v.id = b[1].id

IdIn(v, b) == \E k \in 1..Len(b) : v.id = b[k].id

\* The entry Intersect stores for an entry v of the receiver that matched.
\* A variant that stores the matching entry of b.
StoredEntryFromB(v, b) == b[CHOOSE k \in 1..Len(b) : v.id = b[k].id]

StoredEntry(v, b) == v

-----------------------------------------------------------------------------
(* packet.SignatureV3 *)

ErrSigVersion == "UnsupportedError: signature packet version"
ErrSigHashedLength == "UnsupportedError: invalid hashed material length"
ErrSigPubKeyAlgo == "UnsupportedError: public key algorithm"
ErrSigHash == "UnsupportedError: hash function"
ErrSigUnsigned ==
    "InvalidArgumentError: need to call Sign, SignUserId or SignKey before Serialize"

\* algorithm.PublicKeyById: the registered public-key algorithms by id.
PublicKeyById ==
    (1 :> "RSA") @@ (2 :> "RSAEncryptOnly") @@ (3 :> "RSASignOnly") @@
    (16 :> "ElGamal") @@ (17 :> "DSA") @@ (18 :> "ECDH") @@ (19 :> "ECDSA")

PublicKeyId(a) == CHOOSE id \in DOMAIN PublicKeyById : PublicKeyById[id] = a

\* new(encoding.MPI): no bytes yet.
EmptyMPI == [bitLength |-> 0, bytes |-> None]

\* An MPI after ReadFrom read m.
ReadMPI(m) == [bitLength |-> m.bits, bytes |-> Some(m.bytes)]

\* new(SignatureV3): the zero value.  A value field is None while it is the
\* nil interface and Some(m) once it points to an MPI m, whose bytes are
\* None (a nil slice) or Some of the bytes read or set.
ZeroSignatureV3 ==
    [SigType |-> 0, CreationTime |-> 0, IssuerKeyId |-> 0,
     PubKeyAlgo |-> None, Hash |-> 0, HashTag |-> <<0, 0>>,
     RSASignature |-> None, DSASigR |-> None, DSASigS |-> None]

SigResult(g, e) == [sig |-> g, err |-> e]

\* encoding.Field.Bytes on a value field; calling it on the nil interface
\* is a nil dereference, which the callers decide first.
FieldBytes(f) == f[1].bytes

\* The value dispatch that ends SignatureV3.parse, on the bytes r that
\* follow the hash tag.
\* A variant that reads the two DSA integers in the order s, r.
parseSignatureValueSwapped(g, r) ==
    IF g.PubKeyAlgo[1] \in {"RSA", "RSASignOnly"}
    THEN LET m == MPIRead(r)
         IN IF ~m.ok THEN SigResult([g EXCEPT !.RSASignature = Some(EmptyMPI)], ErrMPIRead)
            ELSE SigResult([g EXCEPT !.RSASignature = Some(ReadMPI(m))], NoError)
    ELSE IF g.PubKeyAlgo[1] = "DSA"
    THEN LET m1 == MPIRead(r)
             m2 == MPIRead(m1.rest)
         IN IF ~m1.ok THEN SigResult([g EXCEPT !.DSASigS = Some(EmptyMPI)], ErrMPIRead)
            ELSE IF ~m2.ok
                 THEN SigResult([g EXCEPT !.DSASigS = Some(ReadMPI(m1)),
                                          !.DSASigR = Some(EmptyMPI)], ErrMPIRead)
            ELSE SigResult([g EXCEPT !.DSASigS = Some(ReadMPI(m1)),
                                     !.DSASigR = Some(ReadMPI(m2))], NoError)
    ELSE SigResult(g, PanicUnreachable)

parseSignatureValue(g, r) ==
    IF g.PubKeyAlgo[1] \in {"RSA", "RSASignOnly"}
    THEN LET m == MPIRead(r)
         IN IF ~m.ok THEN SigResult([g EXCEPT !.RSASignature = Some(EmptyMPI)], ErrMPIRead)
            ELSE SigResult([g EXCEPT !.RSASignature = Some(ReadMPI(m))], NoError)
    ELSE IF g.PubKeyAlgo[1] = "DSA"
    THEN LET m1 == MPIRead(r)
             m2 == MPIRead(m1.rest)
         IN IF ~m1.ok THEN SigResult([g EXCEPT !.DSASigR = Some(EmptyMPI)], ErrMPIRead)
            ELSE IF ~m2.ok
                 THEN SigResult([g EXCEPT !.DSASigR = Some(ReadMPI(m1)),
                                          !.DSASigS = Some(EmptyMPI)], ErrMPIRead)
            ELSE SigResult([g EXCEPT !.DSASigR = Some(ReadMPI(m1)),
                                     !.DSASigS = Some(ReadMPI(m2))], NoError)
    ELSE SigResult(g, PanicUnreachable)

\* SignatureV3.parse on a zero signature and the bytes r of the packet body.
parseSignatureV3(g0, r) ==
    IF Len(r) < 1 THEN SigResult(g0, ErrEOF)
    ELSE IF r[1] < 2 \/ r[1] > 3 THEN SigResult(g0, ErrSigVersion)
    ELSE IF Len(r) < 2 THEN SigResult(g0, ErrEOF)
    ELSE IF r[2] # 5 THEN SigResult(g0, ErrSigHashedLength)
    ELSE IF Len(r) < 7 THEN SigResult(g0, ErrEOF)
    ELSE LET g1 == [g0 EXCEPT !.SigType = r[3],
                              !.CreationTime = SetBytes(SubSeq(r, 4, 7))]
         IN IF Len(r) < 15 THEN SigResult(g1, ErrEOF)
            ELSE LET g2 == [g1 EXCEPT !.IssuerKeyId = SetBytes(SubSeq(r, 8, 15))]
                 IN IF Len(r) < 17 THEN SigResult(g2, ErrEOF)
                    ELSE IF r[16] \notin DOMAIN PublicKeyById
                         THEN SigResult(g2, ErrSigPubKeyAlgo)
                    ELSE LET g3 == [g2 EXCEPT !.PubKeyAlgo = Some(PublicKeyById[r[16]])]
                         IN IF r[17] \notin HashById THEN SigResult(g3, ErrSigHash)
                            ELSE LET g4 == [g3 EXCEPT !.Hash = r[17]]
                                 IN IF Len(r) < 19 THEN SigResult(g4, ErrEOF)
                                    ELSE parseSignatureValue(
                                             [g4 EXCEPT !.HashTag = SubSeq(r, 18, 19)],
                                             SubSeq(r, 20, Len(r)))

\* encoding.Field.WriteTo: the bit length and the bytes of the field.
FieldWrite(f) ==
    <<f[1].bitLength \div 256, f[1].bitLength % 256>>
        \o (IF f[1].bytes = None THEN <<>> ELSE f[1].bytes[1])

\* The big-endian bytes of n in a field of k bytes.
RECURSIVE PutUint(_, _)
PutUint(n, k) == IF k = 0 THEN <<>> ELSE Append(PutUint(n \div 256, k - 1), n % 256)

\* SignatureV3.Serialize: the bytes written to w and the error returned.
SerializeSignatureV3(g) ==
    LET head == <<g.SigType>> \o PutUint(g.CreationTime, 4)
                    \o PutUint(g.IssuerKeyId, 8)
        ids == <<PublicKeyId(g.PubKeyAlgo[1]), g.Hash>> \o g.HashTag
    IN IF g.RSASignature = None
       THEN [out |-> head \o ids, err |-> PanicNilDereference]
       ELSE IF FieldBytes(g.RSASignature) = None /\ g.DSASigR = None
       THEN [out |-> head \o ids, err |-> PanicNilDereference]
       ELSE IF FieldBytes(g.RSASignature) = None /\ FieldBytes(g.DSASigR) = None
       THEN [out |-> head \o ids, err |-> ErrSigUnsigned]
       ELSE IF g.PubKeyAlgo[1] \in {"RSA", "RSASignOnly"}
       THEN [out |-> head \o ids \o FieldWrite(g.RSASignature), err |-> NoError]
       ELSE IF g.PubKeyAlgo[1] = "DSA"
       THEN IF g.DSASigR = None \/ g.DSASigS = None
            THEN [out |-> head \o ids, err |-> PanicNilDereference]
            ELSE [out |-> head \o ids \o FieldWrite(g.DSASigR) \o FieldWrite(g.DSASigS),
                  err |-> NoError]
       ELSE [out |-> head \o ids, err |-> PanicImpossible]


-----------------------------------------------------------------------------
(* The packets and keys the operations are run on *)

MaxTime == 2
MaxCut == 6
MaxFailed == 2

Passphrases == {1, 2, 16}
TruePassphrases == {1, 2}
S2KSpecifier == <<243>>
IV == <<1, 2>>

PubKeyAlgos == RSAFamily \cup {"DSA", "ElGamal", "ECDSA"}

\* The public-key portion of a packet: an RSA modulus 15 = 3 * 5 with public
\* exponent 3 for the RSA family.
PublicKeys ==
    {[PubKeyAlgo |-> a, CreationTime |-> t,
      N |-> IF a \in RSAFamily THEN 15 ELSE 0,
      E |-> IF a \in RSAFamily THEN 3 ELSE 0] :
        a \in PubKeyAlgos, t \in 1..MaxTime}

\* Secret RSA material <<d, p, q>> as stored: valid keys in both prime
\* orders, a prime equal to 1 in either slot, a wrong exponent and a wrong
\* modulus.
RSASecrets ==
    {<<3, 3, 5>>, <<11, 5, 3>>, <<3, 1, 15>>, <<3, 15, 1>>, <<5, 3, 5>>, <<3, 3, 7>>}

XSecrets == {5, 300}

\* The plaintext key material of a packet of public key pub.
Materials(pub) ==
    IF pub.PubKeyAlgo \in RSAFamily
    THEN {MPIWrite(m[1]) \o MPIWrite(m[2]) \o MPIWrite(m[3])
              \o MPIWrite(ModInverse(m[2], m[3])) : m \in RSASecrets}
    ELSE {MPIWrite(x) : x \in XSecrets}

ValidMaterial(pub, m) == parsePrivateKey(NewPrivateKey(pub, None), m).err = NoError

AdditiveTrailer(m) == <<mod64kHash(m) \div 256, mod64kHash(m) % 256>>

\* A packet as an exporter writes it: in the clear (usage 0) or encrypted
\* under passphrase tp with the SHA-1 (usage 254) or additive (usage 255)
\* trailer.
ClearBody(m) == <<0>> \o m \o AdditiveTrailer(m)

EncryptedBody(usage, tp, m) ==
    <<usage, 7>> \o S2KSpecifier \o IV \o
    CFBEncrypt(S2K(S2KSpecifier[1], tp, CipherById[7].KeySize), IV,
               m \o (IF usage = 254 THEN Sha1Sum(m) ELSE AdditiveTrailer(m)))

Input(pub, body, org) == [pub |-> pub, body |-> body, origin |-> org]

WholeInputs ==
    UNION {
        {Input(Some(pub), ClearBody(m), None) : m \in Materials(pub)}
        \cup
        {Input(Some(pub), EncryptedBody(u, tp, m),
               Some([pass |-> tp, valid |-> ValidMaterial(pub, m),
                     time |-> pub.CreationTime])) :
            u \in {254, 255}, tp \in TruePassphrases, m \in Materials(pub)}
        : pub \in PublicKeys}

\* Damaged packets: cut short, one of the last two bytes changed, another
\* usage byte, an unregistered cipher, a cipher without a block size, no
\* public key.
DamagedInputs ==
    UNION {
        {Input(i.pub, SubSeq(i.body, 1, k), None) :
            k \in {n \in 0..MaxCut : n < Len(i.body)}}
        \cup
        {Input(i.pub, [i.body EXCEPT ![Len(i.body)] = Byte(@ + 1)], None),
         Input(i.pub, [i.body EXCEPT ![Len(i.body) - 1] = Byte(@ + 1)], None),
         Input(i.pub, [i.body EXCEPT ![1] = 3], None),
         Input(i.pub, [i.body EXCEPT ![2] = IF i.body[1] = 0 THEN @ ELSE 9], None),
         Input(i.pub, [i.body EXCEPT ![2] = IF i.body[1] = 0 THEN @ ELSE 1], None),
         Input(None, i.body, None)}
        : i \in WholeInputs}

Inputs == WholeInputs \cup DamagedInputs

\* Keys a caller passes to the New*PrivateKey constructors.
CallerKeys(pub) ==
    IF pub.PubKeyAlgo \in RSAFamily
    THEN {Precompute([N |-> 15, E |-> 3, D |-> 3, Primes |-> <<3, 5>>]),
          Precompute([N |-> 15, E |-> 3, D |-> 11, Primes |-> <<5, 3>>])}
    ELSE IF pub.PubKeyAlgo = "DSA" THEN {[type |-> "dsa", X |-> x] : x \in XSecrets}
    ELSE IF pub.PubKeyAlgo = "ElGamal"
         THEN {[type |-> "elgamal", X |-> x] : x \in XSecrets}
    ELSE {[type |-> "ecdsa", D |-> x] : x \in XSecrets}

-----------------------------------------------------------------------------
(* The operations on a PrivateKey packet *)

Call(op, arg, err) == [op |-> op, arg |-> arg, err |-> err]

\* packet.Read of a private-key packet: the parsed packet, or none and the
\* error.
ReadPacket ==
    /\ last.op = "none"
    /\ \E input \in Inputs :
        LET r == parse(ZeroPrivateKey, input)
        IN /\ pk' = IF r.err = NoError THEN Some(r.pk) ELSE None
           /\ origin' = IF r.err = NoError THEN input.origin ELSE None
           /\ old' = Some(r.pk)
           /\ last' = Call("Read", 0, r.err)
    /\ UNCHANGED <<failed, wire, back>>

NewPacket ==
    /\ last.op = "none"
    /\ \E pub \in PublicKeys : \E priv \in CallerKeys(pub) :
        /\ pk' = Some(NewPrivateKey(pub, priv))
        /\ old' = pk'
        /\ last' = Call("New", 0, NoError)
    /\ UNCHANGED <<origin, failed, wire, back>>

DecryptPacket ==
    /\ pk # None
    /\ \E passphrase \in Passphrases :
        LET r == Decrypt(pk[1], passphrase)
        IN /\ pk' = Some(r.pk)
           /\ old' = pk
           /\ last' = Call("Decrypt", passphrase, r.err)
           /\ failed' = IF r.err # NoError /\ failed < MaxFailed
                         THEN failed + 1 ELSE failed
    /\ UNCHANGED <<origin, wire, back>>

SerializePacket ==
    /\ pk # None
    /\ LET r == Serialize(pk[1])
       IN /\ wire' = r.out
          /\ back' = None
          /\ old' = pk
          /\ last' = Call("Serialize", 0, r.err)
    /\ UNCHANGED <<pk, origin, failed>>

\* packet.Read on the bytes Serialize wrote.
ReadBack ==
    /\ wire # None
    /\ back = None
    /\ back' = Some(parse(ZeroPrivateKey, wire[1]))
    /\ UNCHANGED <<pk, origin, failed, old, last, wire>>

InitPacket ==
    /\ pk = None
    /\ origin = None
    /\ failed = 0
    /\ old = None
    /\ last = Call("none", 0, NoError)
    /\ wire = None
    /\ back = None

InitSignatureIdle ==
    /\ sigIn = <<>>
    /\ sig = None
    /\ sigLast = Call("none", 0, NoError)
    /\ sigOut = None

InitHashIdle ==
    /\ hs = <<>>
    /\ hb = <<>>
    /\ ha = <<>>
    /\ hi = 0
    /\ hj = 0
    /\ hpc = "idle"

-----------------------------------------------------------------------------
(* The operations on a SignatureV3 packet *)

\* The body of a signature packet with the given version byte, second byte,
\* algorithm ids and value bytes: type 16, creation time 258, issuer 515.
SignatureBody(version, second, algo, hash, value) ==
    <<version, second, 16>> \o PutUint(258, 4) \o PutUint(515, 8)
        \o <<algo, hash, 171, 205>> \o value

SignatureValues ==
    {MPIWrite(7), MPIWrite(7) \o MPIWrite(300), <<0, 0>> \o MPIWrite(300)}

WholeSignatures ==
    {SignatureBody(v, f, a, h, m) :
        v \in {1, 2, 3, 4}, f \in {4, 5}, a \in {1, 2, 3, 16, 17, 18, 19, 99},
        h \in {2, 8, 99}, m \in SignatureValues}

\* Packets that end early: every proper prefix of an RSA and of a DSA
\* signature.
CutSignatures ==
    UNION {{SubSeq(b, 1, k) : k \in 0..(Len(b) - 1)} :
               b \in {SignatureBody(3, 5, 1, 2, MPIWrite(7)),
                      SignatureBody(3, 5, 17, 2, MPIWrite(7) \o MPIWrite(300))}}

SignatureInputs == WholeSignatures \cup CutSignatures

\* An MPI a signer set to the value n.
SetMPI(n) == [bitLength |-> BitLen(n), bytes |-> Some(BigBytes(n))]

\* The signatures a caller builds field by field: not signed (each value
\* field still the nil interface, or pointing to an MPI without bytes), or
\* signed for the algorithm.
BuiltSignatures ==
    {[ZeroSignatureV3 EXCEPT !.SigType = 16, !.CreationTime = 258,
                             !.IssuerKeyId = 515, !.PubKeyAlgo = Some(a),
                             !.Hash = 2, !.HashTag = <<171, 205>>,
                             !.RSASignature = f[1], !.DSASigR = f[2],
                             !.DSASigS = f[3]] :
        a \in {"RSA", "RSASignOnly", "DSA"},
        f \in ({None, Some(EmptyMPI)} \X {None, Some(EmptyMPI)} \X {None, Some(EmptyMPI)})
              \cup {<<Some(SetMPI(7)), None, None>>,
                    <<None, Some(SetMPI(7)), Some(SetMPI(300))>>}}

\* packet.Read of a signature packet: the parsed packet, or none and the
\* error.
ReadSignature ==
    /\ sigLast.op = "none"
    /\ \E r \in SignatureInputs :
        LET res == parseSignatureV3(ZeroSignatureV3, r)
        IN /\ sigIn' = r
           /\ sig' = IF res.err = NoError THEN Some(res.sig) ELSE None
           /\ sigLast' = Call("Read", 0, res.err)
    /\ UNCHANGED sigOut

BuildSignature ==
    /\ sigLast.op = "none"
    /\ \E g \in BuiltSignatures : sig' = Some(g)
    /\ sigLast' = Call("Build", 0, NoError)
    /\ UNCHANGED <<sigIn, sigOut>>

SerializeSignature ==
    /\ sig # None
    /\ sigLast.op # "Serialize"
    /\ LET res == SerializeSignatureV3(sig[1])
       IN /\ sigOut' = Some(res.out)
          /\ sigLast' = Call("Serialize", 0, res.err)
    /\ UNCHANGED <<sigIn, sig>>

-----------------------------------------------------------------------------
(* HashSlice.Intersect, one iteration of the outer loop at a time *)

MaxLen == 3
MaxLenB == 2

\* Four entries, two of which have the same id.
HashEntries ==
    {[id |-> 1, name |-> "MD5"], [id |-> 2, name |-> "SHA1"],
     [id |-> 8, name |-> "SHA256"], [id |-> 2, name |-> "SHA1 (other)"]}

SeqsUpTo(S, n) == UNION {[1..k -> S] : k \in 0..n}

IntersectCall ==
    /\ hpc = "idle"
    /\ \E a \in SeqsUpTo(HashEntries, MaxLen), b \in SeqsUpTo(HashEntries, MaxLenB) :
        /\ hs' = a
        /\ ha' = a
        /\ hb' = b
    /\ hi' = 1
    /\ hj' = 0
    /\ hpc' = "loop"

\* One iteration of "for _, v := range hs"; the range ends at the length
\* the slice had when the loop began.
IntersectIterate ==
    /\ hpc = "loop"
    /\ hi <= Len(ha)
    /\ LET v == hs[hi]
       IN IF IdIn(v, hb)
          THEN /\ hs' = [hs EXCEPT ![hj + 1] = StoredEntry(v, hb)]
               /\ hj' = hj + 1
          ELSE UNCHANGED <<hs, hj>>
    /\ hi' = hi + 1
    /\ UNCHANGED <<ha, hb, hpc>>

\* return hs[:j]
IntersectReturn ==
    /\ hpc = "loop"
    /\ hi > Len(ha)
    /\ hpc' = "done"
    /\ UNCHANGED <<hs, hb, ha, hi, hj>>

-----------------------------------------------------------------------------
(* Specifications *)

Init == InitPacket /\ InitSignatureIdle /\ InitHashIdle

Next ==
    \/ ReadPacket /\ UNCHANGED <<sigVars, hashVars>>
    \/ NewPacket /\ UNCHANGED <<sigVars, hashVars>>
    \/ DecryptPacket /\ UNCHANGED <<sigVars, hashVars>>
    \/ SerializePacket /\ UNCHANGED <<sigVars, hashVars>>
    \/ ReadBack /\ UNCHANGED <<sigVars, hashVars>>

Spec == Init /\ [][Next]_vars

NextSignature ==
    \/ ReadSignature /\ UNCHANGED <<pkVars, hashVars>>
    \/ BuildSignature /\ UNCHANGED <<pkVars, hashVars>>
    \/ SerializeSignature /\ UNCHANGED <<pkVars, hashVars>>

SpecSignature == Init /\ [][NextSignature]_vars

NextIntersect ==
    \/ IntersectCall /\ UNCHANGED <<pkVars, sigVars>>
    \/ IntersectIterate /\ UNCHANGED <<pkVars, sigVars>>
    \/ IntersectReturn /\ UNCHANGED <<pkVars, sigVars>>

SpecIntersect == Init /\ [][NextIntersect]_vars

-----------------------------------------------------------------------------
(* Properties of the PrivateKey packet *)

\* The three fields the encryption state of a packet consists of.
EncryptionState(p) == <<p.Encrypted, p.encryptedData, p.PrivateKey>>

\* The last operation was a Decrypt call on a packet that was encrypted.
DecryptedEncrypted == last.op = "Decrypt" /\ old[1].Encrypted

\* C1: in every packet a successful parse returned or a constructor built,
\* and after any Decrypt calls, Encrypted holds exactly when the blob is
\* present and the secret material absent; only a successful Decrypt changes
\* the three fields, and it clears the flag and the blob and installs the
\* material together.
C1_EncryptedIffBlobOnly ==
    pk # None =>
        /\ pk[1].Encrypted <=>
               (pk[1].encryptedData # None /\ pk[1].PrivateKey = None)
        /\ (last.op \in {"Decrypt", "Serialize"}
                /\ EncryptionState(pk[1]) # EncryptionState(old[1]))
            => /\ DecryptedEncrypted
               /\ last.err = NoError
               /\ ~pk[1].Encrypted
               /\ pk[1].encryptedData = None
               /\ pk[1].PrivateKey # None

C1_Witness ==
    /\ pk # None
    /\ DecryptedEncrypted
    /\ last.err = NoError
    /\ old[1].encryptedData # None
    /\ pk[1].PrivateKey # None
    /\ failed > 0

\* C2: a Decrypt call on an encrypted packet that returns an error leaves
\* every field of the packet as it was.
C2_FailedDecryptChangesNothing ==
    (DecryptedEncrypted /\ last.err # NoError) => pk = old

C2_Witness ==
    /\ DecryptedEncrypted
    /\ last.err \in {ErrInvalidPrime, ErrInvalidModulus, ErrInvalidExponents}
    /\ pk = old

\* The decrypted data is long enough to hold the trailer of the packet's
\* checksum mode and the trailer is not the checksum of what precedes it.
TrailerMismatch(p, passphrase) ==
    LET data == CFBDecrypt(S2K(p.s2k[1], passphrase, CipherById[p.cipher[1]].KeySize),
                           p.iv[1], p.encryptedData[1])
        n == Len(data)
    IN IF p.sha1Checksum
       THEN /\ n >= 20
            /\ SubSeq(data, n - 19, n) # Sha1Sum(SubSeq(data, 1, n - 20))
       ELSE /\ n >= 2
            /\ data[n - 1] * 256 + data[n] # SumBytes(SubSeq(data, 1, n - 2)) % 65536

\* C3 as claimed: Decrypt of an encrypted packet with a passphrase other
\* than the one it was encrypted under returns the checksum-failure error.
C3_WrongPassphraseIsChecksumFailure ==
    (DecryptedEncrypted /\ origin # None /\ last.arg # origin[1].pass)
        => last.err = ErrChecksum

\* C3 as amended: Decrypt of an encrypted packet returns the checksum-failure
\* error and changes nothing whenever the data decrypted with the passphrase
\* is at least as long as the trailer and fails the integrity check, under
\* both checksum modes and for every key algorithm.
C3_MismatchIsChecksumFailure ==
    (DecryptedEncrypted /\ TrailerMismatch(old[1], last.arg))
        => (last.err = ErrChecksum /\ pk = old)

C3_Witness ==
    /\ DecryptedEncrypted
    /\ origin # None
    /\ last.arg # origin[1].pass
    /\ TrailerMismatch(old[1], last.arg)
    /\ last.err = ErrChecksum

\* The secret components of a key, slot by slot.
SecretComponents(priv) ==
    IF priv.type = "rsa" THEN <<priv.D, priv.Primes[1], priv.Primes[2]>>
    ELSE IF priv.type = "ecdsa" THEN <<priv.D>>
    ELSE <<priv.X>>

\* C4: parsing the bytes Serialize wrote for an unencrypted packet succeeds
\* and yields the same secret components, component by component.
C4_RoundTripKeepsSecretComponents ==
    (wire # None /\ back # None) =>
        /\ back[1].err = NoError
        /\ SecretComponents(back[1].pk.PrivateKey[1])
               = SecretComponents(pk[1].PrivateKey[1])

\* C5: on a packet made by encrypting a valid key, a Decrypt call with the
\* passphrase it was encrypted under succeeds, however many calls failed
\* before, leaves Encrypted false and leaves the creation time that of the
\* public key read at parse time.
C5_CorrectPassphraseSucceeds ==
    (last.op = "Decrypt" /\ origin # None /\ origin[1].valid
        /\ last.arg = origin[1].pass)
        => /\ last.err = NoError
           /\ ~pk[1].Encrypted
           /\ pk[1].PrivateKey # None
           /\ pk[1].PublicKey[1].CreationTime = origin[1].time

C5_Witness ==
    /\ DecryptedEncrypted
    /\ origin # None
    /\ origin[1].valid
    /\ last.arg = origin[1].pass
    /\ failed > 0
    /\ last.err = NoError
    /\ ~pk[1].Encrypted

\* C6: Decrypt on a packet that is not encrypted returns success for every
\* passphrase and changes nothing, and no operation makes a decrypted
\* packet encrypted again.
C6_DecryptOfDecryptedIsNoOp ==
    /\ (last.op = "Decrypt" /\ ~old[1].Encrypted)
           => (last.err = NoError /\ pk = old)
    /\ (last.op \in {"Decrypt", "Serialize"} /\ ~old[1].Encrypted)
           => ~pk[1].Encrypted

C6_Witness ==
    /\ last.op = "Decrypt"
    /\ ~old[1].Encrypted
    /\ origin # None
    /\ last.err = NoError
    /\ pk = old

\* The data holds three big integers of which the second or third is 1.
StoredPrimeIsOne(data) ==
    LET d == MPIRead(data)
        p == MPIRead(d.rest)
        q == MPIRead(p.rest)
    IN /\ d.ok /\ p.ok /\ q.ok
       /\ (SetBytes(p.bytes) = 1 \/ SetBytes(q.bytes) = 1)

RSAValidationErrors ==
    {ErrInvalidPrime, ErrInvalidModulus, ErrInvalidExponents, ErrPublicExponent}

\* The RSA material the last operation parsed, if it parsed any: the bytes
\* after the usage byte of an unencrypted packet read, or the data Decrypt
\* decrypted without its trailer when the data passed the integrity check.
ParsedRSAMaterial ==
    IF old = None \/ old[1].PublicKey = None THEN None
    ELSE IF old[1].PublicKey[1].PubKeyAlgo \notin RSAFamily THEN None
    ELSE IF last.op = "Read" /\ ~old[1].Encrypted /\ old[1].encryptedData # None
         THEN old[1].encryptedData
    ELSE IF DecryptedEncrypted
         THEN LET data == CFBDecrypt(
                      S2K(old[1].s2k[1], last.arg,
                          CipherById[old[1].cipher[1]].KeySize),
                      old[1].iv[1], old[1].encryptedData[1])
                  n == Len(data)
                  t == IF old[1].sha1Checksum THEN 20 ELSE 2
              IN IF n >= t /\ ~TrailerMismatch(old[1], last.arg)
                 THEN Some(SubSeq(data, 1, n - t))
                 ELSE None
    ELSE None

\* C10: parsing RSA material in which a stored prime is 1, at an unencrypted
\* parse or after decryption, returns a validation error without a crash
\* and installs no secret material.
C10_PrimeOneIsValidationError ==
    (ParsedRSAMaterial # None /\ StoredPrimeIsOne(ParsedRSAMaterial[1]))
        => /\ last.err \in RSAValidationErrors
           /\ old[1].PrivateKey = None
           /\ (last.op = "Read" => pk = None)
           /\ (last.op = "Decrypt" => pk = old)

C10_Witness ==
    /\ ParsedRSAMaterial # None
    /\ StoredPrimeIsOne(ParsedRSAMaterial[1])
    /\ last.op = "Decrypt"
    /\ last.err = ErrInvalidPrime

-----------------------------------------------------------------------------
(* Properties of the SignatureV3 packet *)

\* A value field no signing step has populated: the nil interface, or an MPI
\* without bytes.
Unpopulated(f) == f = None \/ f[1].bytes = None

\* C7: Serialize of a signature none of whose value fields is populated
\* returns InvalidArgumentError: it neither crashes nor succeeds.
C7_UnsignedSerializeIsInvalidArgument ==
    (sigLast.op = "Serialize" /\ Unpopulated(sig[1].RSASignature)
        /\ Unpopulated(sig[1].DSASigR) /\ Unpopulated(sig[1].DSASigS))
        => sigLast.err = ErrSigUnsigned

\* C8: a parse that succeeds read a version byte 2 or 3 and a second byte 5,
\* any other value of either byte that is read is an UnsupportedError, and
\* the algorithm decides the value fields: for RSA and RSA-sign-only the RSA
\* field alone, for DSA r and s alone, read in that order.
C8_ParsedSignatureShape ==
    /\ (sigLast.op = "Read" /\ Len(sigIn) >= 1 /\ sigIn[1] \notin {2, 3})
           => sigLast.err = ErrSigVersion
    /\ (sigLast.op = "Read" /\ Len(sigIn) >= 2 /\ sigIn[1] \in {2, 3} /\ sigIn[2] # 5)
           => sigLast.err = ErrSigHashedLength
    /\ (sigLast.op = "Read" /\ sigLast.err = NoError) =>
           /\ sig # None
           /\ sigIn[1] \in {2, 3}
           /\ sigIn[2] = 5
           /\ sig[1].PubKeyAlgo[1] \in {"RSA", "RSASignOnly", "DSA"}
           /\ LET g == sig[1]
                  m1 == MPIRead(SubSeq(sigIn, 20, Len(sigIn)))
                  m2 == MPIRead(m1.rest)
              IN IF g.PubKeyAlgo[1] = "DSA"
                 THEN /\ g.RSASignature = None
                      /\ g.DSASigR # None /\ g.DSASigR[1].bytes = Some(m1.bytes)
                      /\ g.DSASigS # None /\ g.DSASigS[1].bytes = Some(m2.bytes)
                 ELSE /\ g.RSASignature # None
                      /\ g.RSASignature[1].bytes = Some(m1.bytes)
                      /\ g.DSASigR = None
                      /\ g.DSASigS = None

C8_Witness ==
    /\ sigLast.op = "Read"
    /\ sigLast.err = NoError
    /\ sig[1].PubKeyAlgo[1] = "DSA"
    /\ sig[1].DSASigR[1].bytes # sig[1].DSASigS[1].bytes

\* The bytes of the input that a successful parse read as value fields: one
\* MPI for RSA and RSA-sign-only, two for DSA.
ParsedValueBytes(g, r) ==
    LET value == SubSeq(r, 20, Len(r))
        m1 == MPIRead(value)
        m2 == MPIRead(m1.rest)
        rest == IF g.PubKeyAlgo[1] = "DSA" THEN m2.rest ELSE m1.rest
    IN SubSeq(value, 1, Len(value) - Len(rest))

\* A Serialize call on a signature that a successful parse produced.
SerializedParsed ==
    /\ sigLast.op = "Serialize"
    /\ sigIn # <<>>
    /\ sig # None

\* C11: Serialize of a signature produced by a successful parse returns
\* without error or crash and writes the 5 bytes of signature type and
\* creation time, the 8 bytes of the issuer key id, the 4 bytes of algorithm
\* id, hash id and hash tag, then the value fields in parse order.
C11_ParsedSignatureSerializes ==
    SerializedParsed =>
        /\ sigLast.err = NoError
        /\ sigOut = Some(SubSeq(sigIn, 3, 19) \o ParsedValueBytes(sig[1], sigIn))

\* The part of C11 about RSA and RSA-sign-only signatures.
C11_ParsedRSASignatureSerializes ==
    (SerializedParsed /\ sig[1].PubKeyAlgo[1] \in {"RSA", "RSASignOnly"}) =>
        /\ sigLast.err = NoError
        /\ sigOut = Some(SubSeq(sigIn, 3, 19) \o ParsedValueBytes(sig[1], sigIn))

\* The results of the fatal dispatch arms: panic("unreachable") of the
\* signature value dispatch, panic("impossible") of the private-key plaintext
\* dispatch and of the signature Serialize dispatch.
FatalDispatch == {PanicUnreachable, PanicImpossible}

\* C12: no input reaches a fatal dispatch arm: a SignatureV3 parse, and a
\* private-key parse or Decrypt, returns success or an error, never the
\* "unreachable" or "impossible" failure.
C12_NoFatalDispatchArm ==
    /\ sigLast.op = "Read" => sigLast.err \notin FatalDispatch
    /\ last.op \in {"Read", "Decrypt"} => last.err \notin FatalDispatch

-----------------------------------------------------------------------------
(* Properties of HashSlice.Intersect *)

\* The entries of a whose id is the id of some entry of b, in a's order.
RECURSIVE EntriesWithIdIn(_, _)
EntriesWithIdIn(a, b) ==
    IF a = <<>> THEN <<>>
    ELSE (IF \E k \in 1..Len(b) : b[k].id = a[1].id THEN <<a[1]>> ELSE <<>>)
             \o EntriesWithIdIn(Tail(a), b)

EntryA == [id |-> 1, name |-> "MD5"]
EntryB == [id |-> 2, name |-> "SHA1"]
EntryC == [id |-> 8, name |-> "SHA256"]

\* C9: Intersect returns the entries of the receiver whose id appears in b,
\* each time they occur and in the receiver's order, as the prefix of that
\* length of the receiver's own storage; for [A,B,C] and [C,A] that is [A,C].
C9_IntersectKeepsOrder ==
    hpc = "done" =>
        /\ hj <= Len(hs)
        /\ Len(hs) = Len(ha)
        /\ SubSeq(hs, 1, hj) = EntriesWithIdIn(ha, hb)
        /\ (ha = <<EntryA, EntryB, EntryC>> /\ hb = <<EntryC, EntryA>>)
               => SubSeq(hs, 1, hj) = <<EntryA, EntryC>>

C9_Witness ==
    /\ hpc = "done"
    /\ ha = <<EntryA, EntryB, EntryC>>
    /\ hb = <<EntryC, EntryA>>
    /\ SubSeq(hs, 1, hj) = <<EntryA, EntryC>>

====
